---- MODULE Spec2Model ----
(***************************************************************************)
(* A model of the dockerized-api service: the Settings singleton           *)
(* (app/config.py), the three route handlers (app/main.py), the request    *)
(* schema (app/schemas.py) and StructuredLoggingMiddleware.dispatch        *)
(* (app/logging_middleware.py), with several requests in flight.           *)
(*                                                                         *)
(* Time is counted in ticks of the wall clock that time.time() reads;      *)
(* one second is TicksPerSecond ticks.  uptime_seconds and latency_ms are  *)
(* kept in hundredths (round(x, 2) leaves two decimals).                   *)
(***************************************************************************)
EXTENDS Integers, Sequences, FiniteSets, TLC

\* ------------------------------------------------------------- bounds
\* Number of requests the clients send in one behaviour.
MaxRequests == 2
\* The wall clock takes the values 0..MaxClock.
MaxClock == 1
\* Resolution of the modelled clock.
TicksPerSecond == 40

Reqs == 1..MaxRequests

\* ------------------------------------------------------------- values
\* Python's None.
None == "<None>"
\* os.environ without the variable.
Unset == "<unset>"

EnvNames == {"SERVICE_NAME", "ENV", "LOG_LEVEL", "GIT_SHA", "HOST", "PORT"}

\* The process environment at start: nothing set, or the deployment has set
\* the variables the tests use.
EmptyEnv == [k \in EnvNames |-> Unset]

TestEnv == [k \in EnvNames |->
              CASE k = "SERVICE_NAME" -> "test-service"
                [] k = "ENV"          -> "test"
                [] k = "LOG_LEVEL"    -> "DEBUG"
                [] k = "GIT_SHA"      -> "test-sha-123"
                [] OTHER              -> Unset]

\* os.getenv(name, default)
getenv(e, name, default) == IF e[name] = Unset THEN default ELSE e[name]

\* int("8000"): the only PORT string the modelled environments produce.
IntOfStr(s) == CASE s = "8000" -> 8000

\* class Settings: every attribute is evaluated once, when the class body
\* runs at import of app.config.
LoadSettings(e) ==
    [SERVICE_NAME |-> getenv(e, "SERVICE_NAME", "dockerized-api"),
     ENV          |-> getenv(e, "ENV", "development"),
     LOG_LEVEL    |-> getenv(e, "LOG_LEVEL", "INFO"),
     GIT_SHA      |-> getenv(e, "GIT_SHA", None),
     HOST         |-> getenv(e, "HOST", "0.0.0.0"),
     PORT         |-> IntOfStr(getenv(e, "PORT", "8000"))]

\* round(num / den, 2) in hundredths: Python rounds halves to even.
RoundHalfEven(num, den) ==
    LET q == num \div den
        r == num % den
    IN  IF 2 * r < den THEN q
        ELSE IF 2 * r > den THEN q + 1
        ELSE IF q % 2 = 0 THEN q ELSE q + 1

Round2(num, den) == RoundHalfEven(100 * num, den)

\* Request bodies sent to POST /echo: {}, {"message": null},
\* {"message": ""}, {"message": "Hello, World!"}, {"message": 123}.
NoBody == [kind |-> "none"]

EchoBodies ==
    { [kind |-> "missing"],
      [kind |-> "null"],
      [kind |-> "str", value |-> ""],
      [kind |-> "str", value |-> "Hello, World!"],
      [kind |-> "int", value |-> "123"] }

\* The requests the clients send.
Inputs ==
    { [method |-> "GET", path |-> "/health", body |-> NoBody],
      [method |-> "GET", path |-> "/info", body |-> NoBody],
      [method |-> "GET", path |-> "/missing", body |-> NoBody] }
    \cup { [method |-> "POST", path |-> "/echo", body |-> b] : b \in EchoBodies }

NoInput == [method |-> "", path |-> "", body |-> NoBody]

\* Failures the handler chain below the middleware can raise; str(e) is msg.
Exceptions ==
    { [type |-> "RuntimeError", msg |-> "No response returned."],
      [type |-> "ValueError", msg |-> "boom"] }

str(e) == e.msg

NoId == <<>>
NoResult == [kind |-> "none"]

VARIABLES
    env,            \* os.environ
    settings,       \* app.config.settings
    startup_time,   \* app.main.startup_time
    bootEnv,        \* history: os.environ when app.config was imported
    bootTime,       \* history: the clock when app.main was imported
    clock,          \* what time.time() returns now
    uuidDraws,      \* number of uuid.uuid4() calls so far
    pc,             \* per request: where its dispatch coroutine stands
    req,            \* per request: method, path, body
    request_id,     \* per request: dispatch's local request_id
    state_id,       \* per request: request.state.request_id
    start_time,     \* per request: dispatch's local start_time
    chain,          \* per request: what await call_next(request) gave
    handlerRan,     \* per request: the route handler body that ran
    propagated,     \* per request: the failure dispatch raised to its caller
    delivered,      \* per request: the response the client received
    log,            \* the log sink: the records emitted, in order
    uptimes         \* history: uptime_seconds of the /info calls, in order

vars == <<env, settings, startup_time, bootEnv, bootTime, clock, uuidDraws, pc,
          req, request_id, state_id, start_time, chain, handlerRan, propagated,
          delivered, log, uptimes>>

configVars == <<env, settings, startup_time, bootEnv, bootTime>>
reqVars == <<pc, req, request_id, state_id, start_time, chain, handlerRan,
             propagated, delivered>>

\* ------------------------------------------------------------ the app
\* str(uuid.uuid4()): the n-th value drawn from the random source.  uuid4
\* is taken by its contract: a call never returns a value an earlier call
\* returned.
\* A variant that draws the identifier once for the whole process.
NewRequestId_DrawnOnce(n) == <<"uuid4", 1>>

NewRequestId(n) == <<"uuid4", n>>

JSONResponse(status, content) ==
    [status_code |-> status,
     body        |-> content,
     headers     |-> ("content-type" :> "application/json")]

\* async def health_check()
health_check == [status |-> "ok"]

\* A variant that reads the environment again on every call.
get_info_RereadsEnv ==
    [service_name   |-> LoadSettings(env).SERVICE_NAME,
     version        |-> "1.0.0",
     git_sha        |-> LoadSettings(env).GIT_SHA,
     uptime_seconds |-> Round2(clock - startup_time, TicksPerSecond)]

\* async def get_info()
get_info ==
    [service_name   |-> settings.SERVICE_NAME,
     version        |-> "1.0.0",
     git_sha        |-> settings.GIT_SHA,
     uptime_seconds |-> Round2(clock - startup_time, TicksPerSecond)]

\* A variant that strips the message.
echo_message_Stripped(request) ==
    [message   |-> IF request.message = "Hello, World!" THEN "Hello, World"
                   ELSE request.message,
     timestamp |-> clock]

\* async def echo_message(request: EchoRequest); datetime.utcnow() reads the
\* same wall clock.
echo_message(request) ==
    [message |-> request.message, timestamp |-> clock]

\* A variant with message: Optional[str]: null is let through.
ValidateEchoRequest_Optional(body) ==
    CASE body.kind = "missing" -> { [ok |-> FALSE, detail |-> "field required"] }
      [] body.kind = "null"    -> { [ok |-> TRUE, message |-> None] }
      [] body.kind = "str"     -> { [ok |-> TRUE, message |-> body.value] }
      [] OTHER                 -> { [ok |-> FALSE, detail |-> "field required"] }

\* EchoRequest: message: str = Field(...).  The outcomes of validating a
\* body: a missing or null message is rejected; a string is taken as it is;
\* a number is converted to its string form by pydantic 1 and rejected by
\* pydantic 2 (the repository pins neither).
ValidateEchoRequest(body) ==
    CASE body.kind = "missing" -> { [ok |-> FALSE, detail |-> "field required"] }
      [] body.kind = "null"    -> { [ok |-> FALSE, detail |-> "none is not an allowed value"] }
      [] body.kind = "str"     -> { [ok |-> TRUE, message |-> body.value] }
      [] body.kind = "int"     -> { [ok |-> TRUE, message |-> body.value],
                                    [ok |-> FALSE, detail |-> "str type expected"] }
      [] OTHER                 -> { [ok |-> FALSE, detail |-> "field required"] }

\* The routes app.get / app.post register, and what the router answers for
\* a request: the set of (handler that ran, response) outcomes.
Route(i) ==
    CASE i.path = "/health" /\ i.method = "GET" ->
            { [handler |-> "health_check", resp |-> JSONResponse(200, health_check)] }
      [] i.path = "/info" /\ i.method = "GET" ->
            { [handler |-> "get_info", resp |-> JSONResponse(200, get_info)] }
      [] i.path = "/echo" /\ i.method = "POST" ->
            { IF v.ok
                THEN [handler |-> "echo_message",
                      resp |-> JSONResponse(200, echo_message(v))]
                ELSE [handler |-> "none",
                      resp |-> JSONResponse(422, [detail |-> v.detail])]
              : v \in ValidateEchoRequest(i.body) }
      [] i.path \in {"/health", "/info", "/echo"} ->
            { [handler |-> "none",
               resp |-> JSONResponse(405, [detail |-> "Method Not Allowed"])] }
      [] OTHER ->
            { [handler |-> "none", resp |-> JSONResponse(404, [detail |-> "Not Found"])] }

\* ----------------------------------------------------- the middleware
\* A variant that logs 200 for every response.
InfoLogData_Always200(i, resp, started, now, id) ==
    [level       |-> "INFO",
     method      |-> i.method,
     path        |-> i.path,
     status_code |-> 200,
     latency_ms  |-> Round2((now - started) * 1000, TicksPerSecond),
     request_id  |-> id]

\* log_data of the success branch.
InfoLogData(i, resp, started, now, id) ==
    [level       |-> "INFO",
     method      |-> i.method,
     path        |-> i.path,
     status_code |-> resp.status_code,
     latency_ms  |-> Round2((now - started) * 1000, TicksPerSecond),
     request_id  |-> id]

\* log_data of the except branch.
ErrorLogData(i, e, started, now, id) ==
    [level       |-> "ERROR",
     method      |-> i.method,
     path        |-> i.path,
     status_code |-> 500,
     latency_ms  |-> Round2((now - started) * 1000, TicksPerSecond),
     request_id  |-> id,
     error       |-> str(e)]

\* response.headers["X-Request-ID"] = request_id
SetHeader(resp, name, value) ==
    [resp EXCEPT !.headers =
        [h \in (DOMAIN resp.headers) \cup {name} |->
            IF h = name THEN value ELSE resp.headers[h]]]

\* logger.info / logger.error of json.dumps(log_data): one line on the sink.
\* The sink is kept per request: log[r] holds the lines dispatch wrote for r.
Emit(r, data) == [log EXCEPT ![r] = Append(@, data)]

\* History of the /info results: the last two are kept.
Observe(seq, u) ==
    IF Len(seq) < 2 THEN Append(seq, u) ELSE <<seq[2], u>>

Init ==
    /\ env \in {EmptyEnv, TestEnv}
    /\ settings = LoadSettings(env)
    /\ bootEnv = env
    /\ clock \in 0..MaxClock
    /\ startup_time = clock
    /\ bootTime = clock
    /\ uuidDraws = 0
    /\ pc = [r \in Reqs |-> "idle"]
    /\ req = [r \in Reqs |-> NoInput]
    /\ request_id = [r \in Reqs |-> NoId]
    /\ state_id = [r \in Reqs |-> NoId]
    /\ start_time = [r \in Reqs |-> 0]
    /\ chain = [r \in Reqs |-> NoResult]
    /\ handlerRan = [r \in Reqs |-> "none"]
    /\ propagated = [r \in Reqs |-> NoResult]
    /\ delivered = [r \in Reqs |-> NoResult]
    /\ log = [r \in Reqs |-> <<>>]
    /\ uptimes = <<>>

\* dispatch, lines 26-36: a request arrives (requests are numbered in their
\* order of arrival); the coroutine draws its id, stores it in
\* request.state, reads the clock and awaits call_next.
Dispatch_Enter(r, i) ==
    /\ pc[r] = "idle"
    /\ \A q \in Reqs : q < r => pc[q] # "idle"
    /\ req' = [req EXCEPT ![r] = i]
    /\ uuidDraws' = uuidDraws + 1
    /\ request_id' = [request_id EXCEPT ![r] = NewRequestId(uuidDraws + 1)]
    /\ state_id' = [state_id EXCEPT ![r] = NewRequestId(uuidDraws + 1)]
    /\ start_time' = [start_time EXCEPT ![r] = clock]
    /\ pc' = [pc EXCEPT ![r] = "awaiting"]
    /\ UNCHANGED <<configVars, clock, chain, handlerRan, propagated, delivered,
                   log, uptimes>>

\* call_next(request) completes with a response: routing, validation and the
\* route handler ran.
CallNext_Return(r) ==
    /\ pc[r] = "awaiting"
    /\ \E o \in Route(req[r]) :
        /\ chain' = [chain EXCEPT ![r] = [kind |-> "response", resp |-> o.resp]]
        /\ handlerRan' = [handlerRan EXCEPT ![r] = o.handler]
        /\ uptimes' = IF o.handler = "get_info"
                        THEN Observe(uptimes, o.resp.body.uptime_seconds)
                        ELSE uptimes
    /\ pc' = [pc EXCEPT ![r] = "returned"]
    /\ UNCHANGED <<configVars, clock, uuidDraws, req, request_id, state_id,
                   start_time, propagated, delivered, log>>

\* call_next(request) raises: an unhandled failure in the chain below the
\* middleware.
CallNext_Raise(r, e) ==
    /\ pc[r] = "awaiting"
    /\ chain' = [chain EXCEPT ![r] = [kind |-> "exception", exc |-> e]]
    /\ pc' = [pc EXCEPT ![r] = "raised"]
    /\ UNCHANGED <<configVars, clock, uuidDraws, req, request_id, state_id,
                   start_time, handlerRan, propagated, delivered, log, uptimes>>

\* dispatch, lines 52-70: log the INFO record, set the header, return the
\* response, which the transport sends to the client.  The coroutine has
\* ended: its locals are gone.
Dispatch_Return(r) ==
    /\ pc[r] = "returned"
    /\ log' = Emit(r, InfoLogData(req[r], chain[r].resp, start_time[r], clock,
                                  request_id[r]))
    /\ delivered' = [delivered EXCEPT ![r] =
                        [kind |-> "response",
                         resp |-> SetHeader(chain[r].resp, "X-Request-ID",
                                            request_id[r])]]
    /\ pc' = [pc EXCEPT ![r] = "done"]
    /\ request_id' = [request_id EXCEPT ![r] = NoId]
    /\ start_time' = [start_time EXCEPT ![r] = 0]
    /\ chain' = [chain EXCEPT ![r] = NoResult]
    /\ UNCHANGED <<configVars, clock, uuidDraws, req, state_id, handlerRan,
                   propagated, uptimes>>

\* A variant of the except branch that answers 500 itself instead of raising.
Dispatch_Except_Swallow(r) ==
    /\ pc[r] = "raised"
    /\ log' = Emit(r, ErrorLogData(req[r], chain[r].exc, start_time[r], clock,
                                   request_id[r]))
    /\ delivered' = [delivered EXCEPT ![r] =
                        [kind |-> "response",
                         resp |-> SetHeader(
                                    JSONResponse(500, [detail |-> str(chain[r].exc)]),
                                    "X-Request-ID", request_id[r])]]
    /\ pc' = [pc EXCEPT ![r] = "done"]
    /\ request_id' = [request_id EXCEPT ![r] = NoId]
    /\ start_time' = [start_time EXCEPT ![r] = 0]
    /\ chain' = [chain EXCEPT ![r] = NoResult]
    /\ UNCHANGED <<configVars, clock, uuidDraws, req, state_id, handlerRan,
                   propagated, uptimes>>

\* dispatch, lines 37-50: log the ERROR record, then raise.  The failure
\* leaves the coroutine: its locals are gone.
Dispatch_Except(r) ==
    /\ pc[r] = "raised"
    /\ log' = Emit(r, ErrorLogData(req[r], chain[r].exc, start_time[r], clock,
                                   request_id[r]))
    /\ propagated' = [propagated EXCEPT ![r] =
                        [kind |-> "exception", exc |-> chain[r].exc]]
    /\ pc' = [pc EXCEPT ![r] = "propagated"]
    /\ request_id' = [request_id EXCEPT ![r] = NoId]
    /\ start_time' = [start_time EXCEPT ![r] = 0]
    /\ chain' = [chain EXCEPT ![r] = NoResult]
    /\ UNCHANGED <<configVars, clock, uuidDraws, req, state_id, handlerRan,
                   delivered, uptimes>>

\* The failure reaches the server's error layer (the app registers no
\* exception handler), which answers 500 with a response of its own.
ServerError_Respond(r) ==
    /\ pc[r] = "propagated"
    /\ delivered' = [delivered EXCEPT ![r] =
                        [kind |-> "response",
                         resp |-> [status_code |-> 500,
                                   body |-> "Internal Server Error",
                                   headers |-> ("content-type" :> "text/plain")]]]
    /\ pc' = [pc EXCEPT ![r] = "done"]
    /\ UNCHANGED <<configVars, clock, uuidDraws, req, request_id, state_id,
                   start_time, chain, handlerRan, propagated, log, uptimes>>

\* The client has its answer: the request, its state and its response are
\* dropped, and the lines it wrote have left the sink.
Release(r) ==
    /\ pc[r] = "done"
    /\ pc' = [pc EXCEPT ![r] = "released"]
    /\ req' = [req EXCEPT ![r] = NoInput]
    /\ state_id' = [state_id EXCEPT ![r] = NoId]
    /\ handlerRan' = [handlerRan EXCEPT ![r] = "none"]
    /\ propagated' = [propagated EXCEPT ![r] = NoResult]
    /\ delivered' = [delivered EXCEPT ![r] = NoResult]
    /\ log' = [log EXCEPT ![r] = <<>>]
    /\ UNCHANGED <<configVars, clock, uuidDraws, request_id, start_time, chain,
                   uptimes>>

\* A client that sends one request at a time, as the TestClient of
\* tests/test_api.py does: the next request is sent when the answer to the
\* one before has been taken.
Client_Send(r, i) ==
    /\ \A q \in Reqs : q < r => pc[q] = "released"
    /\ Dispatch_Enter(r, i)

\* The wall clock moves on.
ClockAdvance ==
    /\ clock < MaxClock
    /\ clock' = clock + 1
    /\ UNCHANGED <<configVars, uuidDraws, reqVars, log, uptimes>>

\* The system clock is set back (time.time() may return a lower value than
\* an earlier call).
ClockSetBack ==
    /\ clock > 0
    /\ clock' = clock - 1
    /\ UNCHANGED <<configVars, uuidDraws, reqVars, log, uptimes>>

\* os.environ[...] = ... after app.main was imported.
SetEnv ==
    /\ env # TestEnv
    /\ env' = TestEnv
    /\ UNCHANGED <<settings, startup_time, bootEnv, bootTime, clock, uuidDraws,
                   reqVars, log, uptimes>>

\* One request at a time, under a wall clock that moves both ways and an
\* environment that changes after startup.
Next ==
    \/ \E r \in Reqs, i \in Inputs : Client_Send(r, i)
    \/ \E r \in Reqs : CallNext_Return(r)
    \/ \E r \in Reqs, e \in Exceptions : CallNext_Raise(r, e)
    \/ \E r \in Reqs : Dispatch_Return(r)
    \/ \E r \in Reqs : Dispatch_Except(r)
    \/ \E r \in Reqs : ServerError_Respond(r)
    \/ \E r \in Reqs : Release(r)
    \/ ClockAdvance
    \/ ClockSetBack
    \/ SetEnv

Spec == Init /\ [][Next]_vars

\* Up to MaxRequests requests in flight, their steps interleaved in any
\* order.  The process was started with the test environment, and the clock
\* stands still: no guard of the middleware or of a handler reads either.
InitConcurrent ==
    /\ Init
    /\ env = TestEnv
    /\ clock = 0

NextConcurrent ==
    \/ \E r \in Reqs, i \in Inputs : Dispatch_Enter(r, i)
    \/ \E r \in Reqs : CallNext_Return(r)
    \/ \E r \in Reqs, e \in Exceptions : CallNext_Raise(r, e)
    \/ \E r \in Reqs : Dispatch_Return(r)
    \/ \E r \in Reqs : Dispatch_Except(r)
    \/ \E r \in Reqs : ServerError_Respond(r)

SpecConcurrent == InitConcurrent /\ [][NextConcurrent]_vars

\* ------------------------------------------------------------- claims
HasRequestId(resp) ==
    /\ "X-Request-ID" \in DOMAIN resp.headers
    /\ Len(resp.headers["X-Request-ID"]) > 0

IsEcho(i) == i.method = "POST" /\ i.path = "/echo"

\* The request's dispatch has ended, by a return or by a raise.
Finished(r) == pc[r] \in {"done", "propagated"}

\* C1: every response a client receives, whatever its status code, the 500
\* after an unhandled failure included, carries a non-empty X-Request-ID.
C1_EveryResponseHasRequestId ==
    \A r \in Reqs :
        delivered[r].kind = "response" => HasRequestId(delivered[r].resp)

\* C2: with requests interleaved in any order, a request whose dispatch has
\* ended has written exactly one log record, with its own method and path
\* and the status code of its outcome (the response's on success, 500 on
\* failure); a request never has two records.
C2_OneMatchingRecordPerRequest ==
    \A r \in Reqs :
        /\ Len(log[r]) <= 1
        /\ Finished(r) =>
            /\ Len(log[r]) = 1
            /\ log[r][1].method = req[r].method
            /\ log[r][1].path = req[r].path
            /\ log[r][1].status_code =
                  IF propagated[r].kind = "exception" THEN 500
                  ELSE delivered[r].resp.status_code

\* Request 2 arrived after request 1 and failed while request 1 was still
\* in flight.
C2_Witness ==
    /\ MaxRequests >= 2
    /\ pc[1] = "returned"
    /\ chain[1].resp.status_code = 422
    /\ pc[2] = "propagated"
    /\ Len(log[2]) = 1
    /\ log[2][1].status_code = 500
    /\ req[2].path = "/info"

\* C3: the step that handles a failure of the handler chain writes one
\* ERROR record (status_code 500, the request's method, path and id, the
\* failure's string form), raises that same failure to the caller, and
\* returns no response.
C3_FailureLoggedThenPropagated ==
    [][\A r \in Reqs :
          (pc[r] = "raised" /\ pc'[r] # "raised") =>
            /\ Len(log'[r]) = Len(log[r]) + 1
            /\ Len(log'[r]) = 1
            /\ DOMAIN log'[r][1] = {"level", "method", "path", "status_code",
                                    "latency_ms", "request_id", "error"}
            /\ log'[r][1].level = "ERROR"
            /\ log'[r][1].method = req[r].method
            /\ log'[r][1].path = req[r].path
            /\ log'[r][1].status_code = 500
            /\ log'[r][1].request_id = state_id[r]
            /\ log'[r][1].error = chain[r].exc.msg
            /\ propagated'[r] = [kind |-> "exception", exc |-> chain[r].exc]
            /\ delivered'[r] = NoResult
            /\ pc'[r] = "propagated"]_vars

C3_Witness ==
    \E r \in Reqs :
        /\ pc[r] = "propagated"
        /\ propagated[r].exc.type = "ValueError"
        /\ Len(log[r]) = 1
        /\ log[r][1].level = "ERROR"
        /\ log[r][1].error = "boom"

\* C4: the identifier is drawn once per request, and for every answered
\* request, failed ones included, the request_id of its log record equals
\* the X-Request-ID of its response and the id in its request state.
C4_OneIdInLogHeaderAndState ==
    /\ uuidDraws = Cardinality({r \in Reqs : pc[r] # "idle"})
    /\ \A r \in Reqs :
        pc[r] = "done" =>
            /\ Len(log[r]) = 1
            /\ log[r][1].request_id = state_id[r]
            /\ HasRequestId(delivered[r].resp)
            /\ delivered[r].resp.headers["X-Request-ID"] = log[r][1].request_id

\* The identifiers that appear for a request: in its state, its log records
\* and its response header.
IdsOf(r) ==
    ({state_id[r], request_id[r]} \ {NoId})
    \cup {log[r][k].request_id : k \in DOMAIN log[r]}
    \cup (IF delivered[r].kind = "response"
             /\ "X-Request-ID" \in DOMAIN delivered[r].resp.headers
            THEN {delivered[r].resp.headers["X-Request-ID"]} ELSE {})

\* C5: two distinct requests never share an identifier, in any interleaving.
C5_IdsPairwiseDistinct ==
    \A r, q \in Reqs : r # q => IdsOf(r) \cap IdsOf(q) = {}

\* Request 2 arrived after request 1 and is answered, with its id in its
\* header and its log record, while request 1 is still in flight.
C5_Witness ==
    /\ MaxRequests >= 2
    /\ pc[1] = "awaiting"
    /\ state_id[1] # NoId
    /\ pc[2] = "done"
    /\ HasRequestId(delivered[2].resp)
    /\ Len(log[2]) = 1

InvalidEcho(i) == IsEcho(i) /\ i.body.kind \in {"missing", "null"}

\* C6: POST /echo without a message, or with a null one, never runs the
\* echo handler and is answered 422 whenever the chain answers; the
\* middleware then writes its one record at INFO with status_code 422 and
\* no error field.
C6_InvalidEchoRejected ==
    \A r \in Reqs :
        InvalidEcho(req[r]) =>
            /\ handlerRan[r] # "echo_message"
            /\ chain[r].kind = "response" => chain[r].resp.status_code = 422
            /\ (pc[r] = "done" /\ propagated[r] = NoResult) =>
                /\ delivered[r].resp.status_code = 422
                /\ Len(log[r]) = 1
                /\ log[r][1].level = "INFO"
                /\ log[r][1].status_code = 422
                /\ "error" \notin DOMAIN log[r][1]

C6_Witness ==
    \E r \in Reqs :
        /\ req[r].body.kind = "null"
        /\ IsEcho(req[r])
        /\ pc[r] = "done"
        /\ delivered[r].resp.status_code = 422
        /\ log[r][1].level = "INFO"

EchoOf(resp, m) ==
    /\ resp.status_code = 200
    /\ DOMAIN resp.body = {"message", "timestamp"}
    /\ resp.body.message = m

\* C7: POST /echo with a string message, the empty one included, runs the
\* echo handler and is answered 200 with that message, unchanged, and a
\* timestamp, whatever requests came before.
C7_EchoReturnsMessage ==
    \A r \in Reqs :
        (IsEcho(req[r]) /\ req[r].body.kind = "str") =>
            /\ chain[r].kind = "response" =>
                /\ handlerRan[r] = "echo_message"
                /\ EchoOf(chain[r].resp, req[r].body.value)
            /\ (pc[r] = "done" /\ propagated[r] = NoResult) =>
                EchoOf(delivered[r].resp, req[r].body.value)

\* The second request of the run echoes "Hello, World!".
C7_Witness ==
    /\ MaxRequests >= 2
    /\ pc[1] = "released"
    /\ pc[2] = "done"
    /\ IsEcho(req[2])
    /\ req[2].body.kind = "str"
    /\ delivered[2].resp.status_code = 200
    /\ delivered[2].resp.body.message = "Hello, World!"

\* C8: uptime_seconds of GET /info is never below 0 and never decreases
\* from one call to the next, however the clock behaves.
C8_UptimeNonNegativeNonDecreasing ==
    /\ \A k \in DOMAIN uptimes : uptimes[k] >= 0
    /\ Len(uptimes) = 2 => uptimes[1] <= uptimes[2]

\* The value the process was started with, or the default.
Configured(name, default) ==
    IF bootEnv[name] = Unset THEN default ELSE bootEnv[name]

InfoOf(body) ==
    /\ body.service_name = Configured("SERVICE_NAME", "dockerized-api")
    /\ body.git_sha = Configured("GIT_SHA", None)
    /\ body.version = "1.0.0"

C10_LatencyNonNegative ==
    \A r \in Reqs : \A k \in DOMAIN log[r] : log[r][k].latency_ms >= 0

====
